---- MODULE Spec2Model ----
(***************************************************************************)
(* SAP MCP server: the connector abstraction (HANA and ODBC variants), the *)
(* three tool handlers (get_tables, get_columns, run_query) and the CSV    *)
(* formatter, as a state machine.                                          *)
(*                                                                         *)
(* Text is modelled by TLA+ strings, which are sequences of characters:    *)
(* Len, \o and SubSeq apply to them.  A Python value that may be None is   *)
(* modelled by a set: {} is None and {s} is the string s.                  *)
(*                                                                         *)
(* The native drivers (hdbcli, pyodbc) and the database are the            *)
(* environment.  Each call draws their behaviour from small sets: whether  *)
(* the driver's connect succeeds, and what the backend answers to the      *)
(* statement or catalog call it is given.  The driver's close() of a live  *)
(* handle is taken to succeed.  A handle the connector stops referencing   *)
(* without closing it stays open while its caller holds it, and is         *)
(* otherwise finalised when the runtime decides: both outcomes are drawn.  *)
(*                                                                         *)
(* Field values are text or NULL, and statements are ASCII text: upper()   *)
(* maps a-z and strip() removes the ASCII white space characters.          *)
(*                                                                         *)
(* connectors/base.py annotates get_tables with Optional without importing *)
(* it, so importing the connectors package raises NameError as the source  *)
(* stands.  The model describes the classes and handlers as they are       *)
(* written, that is, as they behave once the name resolves.                *)
(*                                                                         *)
(* Specifications: Spec (calls on one connector, one at a time), SpecCsv   *)
(* (to_csv on given rows), SpecStartup (create_server on a given Config),  *)
(* SpecQuery (execute_query on a given result set) and SpecConc            *)
(* (invocations interleaving inside _get_connection).                      *)
(***************************************************************************)
EXTENDS Integers, Sequences, FiniteSets, TLC

VARIABLES
    variant,      \* "hana" (HanaConnector) or "odbc" (OdbcConnector)
    driver,       \* TRUE iff the variant's native driver module can be imported
    connection,   \* self._connection: NoHandle or the stored handle
    opened,       \* handles the driver has opened and nobody has closed
    created,      \* number of handles the driver has handed out so far
    last_error,   \* self._last_error: {} while the attribute is unset
    call,         \* the most recent call: its arguments, result and trace
    inflight      \* invocations running concurrently, each with its position
                  \* in _get_connection and its locals; <<>> when calls do
                  \* not overlap

vars ==
    <<variant, driver, connection, opened, created, last_error, call, inflight>>

---------------------------------------------------------------------------
(* Bounds of the model *)

MaxHandles == 3

---------------------------------------------------------------------------
(* Python values *)

None == {}

Str(s) == {s}

Val(o) == CHOOSE s \in o : TRUE

\* bool(x) of an optional string: None and "" are falsy
Truthy(o) == o # None /\ o # Str("")

NoHandle == 0

---------------------------------------------------------------------------
(* str methods used by the handlers *)

LowerLetters == "abcdefghijklmnopqrstuvwxyz"

UpperLetters == "ABCDEFGHIJKLMNOPQRSTUVWXYZ"

CharAt(s, i) == SubSeq(s, i, i)

UpperChar(c) ==
    IF \E i \in 1..Len(LowerLetters) : CharAt(LowerLetters, i) = c
    THEN CharAt(UpperLetters,
                CHOOSE i \in 1..Len(LowerLetters) : CharAt(LowerLetters, i) = c)
    ELSE c

RECURSIVE Upper(_)
\* str.upper()
Upper(s) ==
    IF Len(s) = 0 THEN ""
    ELSE UpperChar(CharAt(s, 1)) \o Upper(SubSeq(s, 2, Len(s)))

\* the ASCII characters str.strip() removes: space, \t, \n, \r, \f, the
\* vertical tab (0x0b) and the separators 0x1c to 0x1f; the last five have
\* no escape and stand in the strings as the characters themselves
IsSpace(c) ==
    c \in {" ", "\t", "\n", "\r", "\f", "", "", "", "", ""}

RECURSIVE LStrip(_)
LStrip(s) ==
    IF Len(s) > 0 /\ IsSpace(CharAt(s, 1))
    THEN LStrip(SubSeq(s, 2, Len(s)))
    ELSE s

RECURSIVE RStrip(_)
RStrip(s) ==
    IF Len(s) > 0 /\ IsSpace(CharAt(s, Len(s)))
    THEN RStrip(SubSeq(s, 1, Len(s) - 1))
    ELSE s

\* str.strip()
Strip(s) == RStrip(LStrip(s))

\* str.startswith(p)
StartsWith(s, p) == Len(s) >= Len(p) /\ SubSeq(s, 1, Len(p)) = p

\* p in s
Contains(s, p) ==
    \E i \in 1..(Len(s) - Len(p) + 1) : SubSeq(s, i, i + Len(p) - 1) = p

\* a writer that leaves quote characters inside a value as they are
ReplaceQuoteNone(s) == s

RECURSIVE ReplaceQuote(_)
\* str.replace('"', '""'), the csv module's doubling of the quote character
ReplaceQuote(s) ==
    IF Len(s) = 0 THEN ""
    ELSE (IF CharAt(s, 1) = "\"" THEN "\"\"" ELSE CharAt(s, 1))
             \o ReplaceQuote(SubSeq(s, 2, Len(s)))

---------------------------------------------------------------------------
(* dict[str, Any]: a sequence of <<key, value>> pairs with distinct keys,  *)
(* in insertion order                                                      *)

Keys(d) == [i \in 1..Len(d) |-> d[i][1]]

HasKey(d, k) == \E i \in 1..Len(d) : d[i][1] = k

\* d.get(k): None when the key is absent
Get(d, k) ==
    IF HasKey(d, k) THEN d[CHOOSE i \in 1..Len(d) : d[i][1] = k][2] ELSE None

\* an assignment that keeps the value a key already has
SetItemKeep(d, k, v) ==
    IF HasKey(d, k) THEN d ELSE Append(d, <<k, v>>)

\* d[k] = v: an existing key keeps its position and takes the new value
SetItem(d, k, v) ==
    IF HasKey(d, k)
    THEN [i \in 1..Len(d) |-> IF d[i][1] = k THEN <<k, v>> ELSE d[i]]
    ELSE Append(d, <<k, v>>)

---------------------------------------------------------------------------
(* csv_utils.to_csv *)

\* one field under csv.QUOTE_ALL: None is written as the empty string
QuoteField(v) ==
    "\"" \o (IF v = None THEN "" ELSE ReplaceQuote(Val(v))) \o "\""

RECURSIVE JoinFields(_)
JoinFields(fs) ==
    IF Len(fs) = 0 THEN ""
    ELSE IF Len(fs) = 1 THEN fs[1]
    ELSE fs[1] \o "," \o JoinFields(Tail(fs))

\* csv.writer.writerow: the fields joined by commas, ended by \r\n
WriteRow(vals) ==
    JoinFields([i \in 1..Len(vals) |-> QuoteField(vals[i])]) \o "\r\n"

\* DictWriter.writeheader
WriteHeader(columns) ==
    WriteRow([i \in 1..Len(columns) |-> Str(columns[i])])

\* a row writer that skips the columns a row lacks instead of filling them
WriteDictRowPresentOnly(row, columns) ==
    WriteRow(LET present == SelectSeq(columns, LAMBDA c : HasKey(row, c))
             IN  [i \in 1..Len(present) |-> Get(row, present[i])])

\* DictWriter.writerow with extrasaction="ignore" and restval=""
WriteDictRow(row, columns) ==
    WriteRow([i \in 1..Len(columns) |->
                 IF HasKey(row, columns[i]) THEN Get(row, columns[i]) ELSE Str("")])

RECURSIVE WriteRows(_, _)
WriteRows(rows, columns) ==
    IF Len(rows) = 0 THEN ""
    ELSE WriteDictRow(rows[1], columns) \o WriteRows(Tail(rows), columns)

\* columns is None (use the first row's keys) or {list of column names}
to_csv(rows, columns) ==
    IF Len(rows) = 0 THEN ""
    ELSE LET cols == IF columns = None THEN Keys(rows[1]) ELSE Val(columns)
         IN  WriteHeader(cols) \o WriteRows(rows, cols)

---------------------------------------------------------------------------
(* What one call starts from, and what it gives back *)

\* the connector object's fields, with the driver's bookkeeping of handles
Connector ==
    [variant |-> variant, driver |-> driver, connection |-> connection,
     opened |-> opened, created |-> created, last_error |-> last_error]

\* one step of a call's trace: a driver or backend operation on handle h,
\* and whether it succeeded
Event(ev, h, text, params, ok) ==
    [ev |-> ev, h |-> h, text |-> text, params |-> params, ok |-> ok]

\* the call raised exception class exc with str(e) = msg
Raise(cs, exc, msg, events) ==
    [cs |-> cs, raised |-> TRUE, exc |-> exc, msg |-> msg, value |-> None,
     events |-> events, got |-> None]

Return(cs, value, events) ==
    [cs |-> cs, raised |-> FALSE, exc |-> "", msg |-> "", value |-> value,
     events |-> events, got |-> None]

\* a tool handler returns text; got is what the connector returned to it
\* ({rows}), or None when the connector was not called or raised
Reply(cs, text, events, got) ==
    [cs |-> cs, raised |-> FALSE, exc |-> "", msg |-> "", value |-> text,
     events |-> events, got |-> got]

---------------------------------------------------------------------------
(* The environment: the driver and the backend *)

ConnectOk == [ok |-> TRUE, msg |-> ""]

ConnectFail(m) == [ok |-> FALSE, msg |-> m]

DriverErrorTexts == {"Connection failed (RTE:[89006] System call 'connect' failed)"}

ConnectOutcomes == {ConnectOk} \cup {ConnectFail(m) : m \in DriverErrorTexts}

\* the backend's answer to one cursor call: a result set, an error, or
\* (for a statement that yields no result set) cursor.description = None
ResultSet(description, tuples) ==
    [kind |-> "rows", msg |-> "", description |-> description, tuples |-> tuples]

BackendError(m) ==
    [kind |-> "error", msg |-> m, description |-> <<>>, tuples |-> <<>>]

NoResultSet ==
    [kind |-> "nodesc", msg |-> "", description |-> <<>>, tuples |-> <<>>]

BackendErrorTexts == {"sql syntax error: incorrect syntax near \"FROM\""}

\* one environment choice for a call: the outcome of the driver's connect,
\* the backend's answer, and whether a handle the connector stops
\* referencing is finalised by the runtime (nobody else holds it) or not
Env(c, b, g) == [connect |-> c, be |-> b, gc |-> g]

---------------------------------------------------------------------------
(* HanaConnector / OdbcConnector: connection management *)

ImportErrorText(v) ==
    IF v = "hana"
    THEN "hdbcli is required for HANA connections. Install with: pip install hdbcli"
    ELSE "pyodbc is required for ODBC connections. Install with: pip install pyodbc"

\* connect(): the new handle is assigned over whatever the slot held; the
\* prior handle is not closed by the connector
connect(cs, env) ==
    IF ~cs.driver
    THEN Raise(cs, "ImportError", ImportErrorText(cs.variant), <<>>)
    ELSE IF ~env.connect.ok
    THEN Raise(cs, "Error", env.connect.msg,
               <<Event("connect", NoHandle, "", <<>>, FALSE)>>)
    ELSE LET h == cs.created + 1
             prior == cs.connection
             left == IF prior # NoHandle /\ env.gc
                     THEN cs.opened \ {prior} ELSE cs.opened
         IN  Return([cs EXCEPT !.connection = h, !.created = h,
                               !.opened = left \cup {h}],
                    h, <<Event("connect", h, "", <<>>, TRUE)>>)

\* a connection getter that connects on every call
get_connection_always(cs, env) ==
    LET c == connect(cs, env)
    IN  IF c.raised THEN c ELSE Return(c.cs, c.cs.connection, c.events)

\* _get_connection()
get_connection(cs, env) ==
    IF cs.connection = NoHandle
    THEN LET c == connect(cs, env)
         IN  IF c.raised THEN c ELSE Return(c.cs, c.cs.connection, c.events)
    ELSE Return(cs, cs.connection, <<>>)

\* a close that closes the handle and leaves it in the slot
close_keeps_slot(cs) ==
    IF cs.connection # NoHandle
    THEN Return([cs EXCEPT !.opened = @ \ {cs.connection}],
                None, <<Event("close", cs.connection, "", <<>>, TRUE)>>)
    ELSE Return(cs, None, <<>>)

\* close()
close(cs) ==
    IF cs.connection # NoHandle
    THEN Return([cs EXCEPT !.opened = @ \ {cs.connection},
                           !.connection = NoHandle],
                None, <<Event("close", cs.connection, "", <<>>, TRUE)>>)
    ELSE Return(cs, None, <<>>)

---------------------------------------------------------------------------
(* HanaConnector: catalog queries *)

Digits == "0123456789"

RECURSIVE NatToStr(_)
NatToStr(n) ==
    IF n < 10 THEN CharAt(Digits, n + 1)
    ELSE NatToStr(n \div 10) \o CharAt(Digits, (n % 10) + 1)

\* f"{limit}" for an int
IntToStr(n) == IF n < 0 THEN "-" \o NatToStr(0 - n) ELSE NatToStr(n)

\* x or ""
OrEmpty(v) == IF Truthy(v) THEN v ELSE Str("")

HanaTablesSql ==
    "\n            SELECT\n                SCHEMA_NAME as \"Schema\",\n                TABLE_NAME as \"Table\",\n                COMMENTS as \"Description\"\n            FROM SYS.TABLES\n            WHERE 1=1\n        "

HanaColumnsSql ==
    "\n            SELECT\n                SCHEMA_NAME as \"Schema\",\n                TABLE_NAME as \"Table\",\n                COLUMN_NAME as \"Column\",\n                DATA_TYPE_NAME as \"DataType\",\n                COMMENTS as \"Description\"\n            FROM SYS.TABLE_COLUMNS\n            WHERE TABLE_NAME = ?\n        "

HanaTableRow(row) ==
    <<  <<"Schema", row[1]>>, <<"Table", row[2]>>,
        <<"Description", OrEmpty(row[3])>>  >>

HanaColumnRow(row) ==
    <<  <<"Schema", row[1]>>, <<"Table", row[2]>>, <<"Column", row[3]>>,
        <<"DataType", row[4]>>, <<"Description", OrEmpty(row[5])>>  >>

\* HanaConnector.get_tables(catalog, schema, search, limit)
HanaGetTables(cs, catalog, schema, search, limit, env) ==
    LET g == get_connection(cs, env)
    IN  IF g.raised THEN g
        ELSE
        LET sql == HanaTablesSql
                     \o (IF Truthy(schema) THEN " AND SCHEMA_NAME = ?" ELSE "")
                     \o (IF Truthy(search)
                         THEN " AND upper(TABLE_NAME) LIKE ?" ELSE "")
                     \o " ORDER BY SCHEMA_NAME, TABLE_NAME"
                     \o " LIMIT " \o IntToStr(limit)
            params == (IF Truthy(schema) THEN <<schema>> ELSE <<>>)
                        \o (IF Truthy(search)
                            THEN <<Str("%" \o Upper(Val(search)) \o "%")>>
                            ELSE <<>>)
            ev == g.events \o <<Event("execute", g.value, sql, params, env.be.kind # "error")>>
        IN  IF env.be.kind = "error"
            THEN Raise(g.cs, "Error", env.be.msg, ev)
            ELSE Return(g.cs,
                        [i \in 1..Len(env.be.tuples) |->
                            HanaTableRow(env.be.tuples[i])],
                        ev)

\* HanaConnector.get_columns(table, catalog, schema)
HanaGetColumns(cs, table, catalog, schema, env) ==
    LET g == get_connection(cs, env)
    IN  IF g.raised THEN g
        ELSE
        LET sql == HanaColumnsSql
                     \o (IF Truthy(schema) THEN " AND SCHEMA_NAME = ?" ELSE "")
                     \o " ORDER BY POSITION"
            params == <<table>> \o (IF Truthy(schema) THEN <<schema>> ELSE <<>>)
            ev == g.events \o <<Event("execute", g.value, sql, params, env.be.kind # "error")>>
        IN  IF env.be.kind = "error"
            THEN Raise(g.cs, "Error", env.be.msg, ev)
            ELSE Return(g.cs,
                        [i \in 1..Len(env.be.tuples) |->
                            HanaColumnRow(env.be.tuples[i])],
                        ev)

---------------------------------------------------------------------------
(* OdbcConnector: catalog functions.  A pyodbc row is a record of its       *)
(* named attributes.                                                        *)

OdbcTableRow(row) ==
    <<  <<"Catalog", OrEmpty(row.table_cat)>>,
        <<"Schema", OrEmpty(row.table_schem)>>,
        <<"Table", row.table_name>>,
        <<"Description", OrEmpty(row.remarks)>>  >>

\* getattr(row, name, default)
GetAttr(row, name, default) ==
    IF name \in DOMAIN row THEN row[name] ELSE default

OdbcColumnRow(row) ==
    <<  <<"Catalog", OrEmpty(row.table_cat)>>,
        <<"Schema", OrEmpty(row.table_schem)>>,
        <<"Table", row.table_name>>,
        <<"Column", row.column_name>>,
        <<"DataType", row.type_name>>,
        <<"Description", OrEmpty(GetAttr(row, "remarks", Str("")))>>  >>

\* OdbcConnector.get_tables(catalog, schema): no search, no limit
OdbcGetTables(cs, catalog, schema, env) ==
    LET g == get_connection(cs, env)
    IN  IF g.raised THEN g
        ELSE
        LET ev == g.events
                    \o <<Event("tables", g.value, "", <<catalog, schema>>,
                             env.be.kind # "error")>>
        IN  IF env.be.kind = "error"
            THEN Raise(g.cs, "Error", env.be.msg, ev)
            ELSE Return(g.cs,
                        [i \in 1..Len(env.be.tuples) |->
                            OdbcTableRow(env.be.tuples[i])],
                        ev)

\* OdbcConnector.get_columns(table, catalog, schema)
OdbcGetColumns(cs, table, catalog, schema, env) ==
    LET g == get_connection(cs, env)
    IN  IF g.raised THEN g
        ELSE
        LET ev == g.events
                    \o <<Event("columns", g.value, "", <<table, catalog, schema>>,
                             env.be.kind # "error")>>
        IN  IF env.be.kind = "error"
            THEN Raise(g.cs, "Error", env.be.msg, ev)
            ELSE Return(g.cs,
                        [i \in 1..Len(env.be.tuples) |->
                            OdbcColumnRow(env.be.tuples[i])],
                        ev)

---------------------------------------------------------------------------
(* Both variants: execute_query, test_connection *)

RECURSIVE BuildRow(_, _, _, _)
\* for i, value in enumerate(row): row_dict[column_names[i]] = value
BuildRow(column_names, row, i, row_dict) ==
    IF i > Len(row) THEN row_dict
    ELSE BuildRow(column_names, row, i + 1,
                  SetItem(row_dict, column_names[i], row[i]))

\* an execute_query that recovers from a backend error by closing the
\* stored connection, so that the next call connects afresh
execute_query_resets(cs, sql, env) ==
    LET g == get_connection(cs, env)
    IN  IF g.raised THEN g
        ELSE
        LET ev == g.events \o <<Event("execute", g.value, sql, <<>>,
                                   env.be.kind # "error")>>
        IN  IF env.be.kind = "error"
            THEN LET c == close(g.cs)
                 IN  Raise(c.cs, "Error", env.be.msg, ev \o c.events)
            ELSE IF env.be.kind = "nodesc"
            THEN Raise(g.cs, "TypeError",
                       "'NoneType' object is not iterable", ev)
            ELSE Return(g.cs,
                        [i \in 1..Len(env.be.tuples) |->
                            BuildRow(env.be.description, env.be.tuples[i],
                                     1, <<>>)],
                        ev)

\* execute_query(sql): the text goes to cursor.execute as given
execute_query(cs, sql, env) ==
    LET g == get_connection(cs, env)
    IN  IF g.raised THEN g
        ELSE
        LET ev == g.events \o <<Event("execute", g.value, sql, <<>>,
                                   env.be.kind # "error")>>
        IN  IF env.be.kind = "error"
            THEN Raise(g.cs, "Error", env.be.msg, ev)
            ELSE IF env.be.kind = "nodesc"
            THEN Raise(g.cs, "TypeError",
                       "'NoneType' object is not iterable", ev)
            ELSE Return(g.cs,
                        [i \in 1..Len(env.be.tuples) |->
                            BuildRow(env.be.description, env.be.tuples[i],
                                     1, <<>>)],
                        ev)

ProbeSql(v) == IF v = "hana" THEN "SELECT 1 FROM DUMMY" ELSE "SELECT 1"

\* a test_connection whose failure escapes
ProbeFailedRaises(cs, msg, events) == Raise(cs, "Error", msg, events)

\* the except clause of test_connection: only HanaConnector keeps str(e);
\* the result's msg records str(e) of what was caught
ProbeFailed(cs, msg, events) ==
    [Return(IF cs.variant = "hana"
            THEN [cs EXCEPT !.last_error = Str(msg)] ELSE cs,
            FALSE, events) EXCEPT !.msg = msg]

\* test_connection()
test_connection(cs, env) ==
    LET g == get_connection(cs, env)
    IN  IF g.raised THEN ProbeFailed(g.cs, g.msg, g.events)
        ELSE
        LET ev == g.events
                    \o <<Event("execute", g.value, ProbeSql(cs.variant), <<>>,
                             env.be.kind # "error")>>
        IN  IF env.be.kind = "error"
            THEN ProbeFailed(g.cs, env.be.msg, ev)
            ELSE Return(g.cs, TRUE, ev)

\* HanaConnector.get_last_error(): getattr(self, '_last_error', 'Unknown error')
get_last_error(cs) ==
    IF cs.last_error = None THEN "Unknown error" ELSE Val(cs.last_error)

\* connector.get_last_error() on either variant: OdbcConnector defines no
\* such method, so the attribute lookup raises AttributeError
ConnectorGetLastError(cs) ==
    IF cs.variant = "hana"
    THEN Return(cs, get_last_error(cs), <<>>)
    ELSE Raise(cs, "AttributeError",
               "'OdbcConnector' object has no attribute 'get_last_error'", <<>>)

---------------------------------------------------------------------------
(* Tool handlers.  An entry "call:<method>" in the trace is the handler    *)
(* invoking that connector method.                                         *)

Invoke(method, text, params) ==
    Event("call:" \o method, NoHandle, text, params, TRUE)

\* a handler without the catch-all: the connector's exception escapes
CaughtNothing(r, events) ==
    [cs |-> r.cs, raised |-> TRUE, exc |-> r.exc, msg |-> r.msg,
     value |-> None, events |-> events, got |-> None]

\* except Exception as e: return f"ERROR: {str(e)}" -- the handler returns;
\* exc and msg keep what was caught
Caught(r, events) ==
    [cs |-> r.cs, raised |-> FALSE, exc |-> r.exc, msg |-> r.msg,
     value |-> "ERROR: " \o r.msg, events |-> events, got |-> None]

\* connector.get_tables(catalog=, schema=, search=, limit=) as the handler
\* calls it: OdbcConnector.get_tables takes neither search nor limit, so
\* binding the keywords raises TypeError before its body runs
ConnectorGetTables(cs, catalog, schema, search, limit, env) ==
    IF cs.variant = "hana"
    THEN HanaGetTables(cs, catalog, schema, search, limit, env)
    ELSE Raise(cs, "TypeError",
               "OdbcConnector.get_tables() got an unexpected keyword argument 'search'",
               <<>>)

ConnectorGetColumns(cs, table, catalog, schema, env) ==
    IF cs.variant = "hana"
    THEN HanaGetColumns(cs, table, catalog, schema, env)
    ELSE OdbcGetColumns(cs, table, catalog, schema, env)

\* a column test that asks every record, not some record, for a value
AllTruthy(rows, key) == \A i \in 1..Len(rows) : Truthy(Get(rows[i], key))

\* any(r.get(key) for r in rows)
AnyTruthy(rows, key) == \E i \in 1..Len(rows) : Truthy(Get(rows[i], key))

\* the tool <prefix>_get_tables
tool_get_tables(cs, catalog, schema, search, limit, env) ==
    LET r == ConnectorGetTables(cs, catalog, schema, search, limit, env)
        ev == <<Invoke("get_tables", "", <<catalog, schema, search>>)>> \o r.events
    IN  IF r.raised THEN Caught(r, ev)
        ELSE IF Len(r.value) = 0
        THEN Reply(r.cs, "No tables found.", ev, {r.value})
        ELSE
        LET columns == (IF AnyTruthy(r.value, "Catalog") THEN <<"Catalog">> ELSE <<>>)
                         \o (IF AnyTruthy(r.value, "Schema") THEN <<"Schema">> ELSE <<>>)
                         \o <<"Table", "Description">>
        IN  Reply(r.cs, to_csv(r.value, {columns}), ev, {r.value})

\* the try block of get_columns
GetColumnsBody(cs, table, catalog, schema, env) ==
    LET r == ConnectorGetColumns(cs, table, catalog, schema, env)
        ev == <<Invoke("get_columns", "", <<table, catalog, schema>>)>> \o r.events
    IN  IF r.raised THEN Caught(r, ev)
        ELSE IF Len(r.value) = 0
        THEN Reply(r.cs, "No columns found for table: " \o Val(table), ev, {r.value})
        ELSE
        LET output_columns ==
                (IF AnyTruthy(r.value, "Catalog") THEN <<"Catalog">> ELSE <<>>)
                  \o (IF AnyTruthy(r.value, "Schema") THEN <<"Schema">> ELSE <<>>)
                  \o <<"Table", "Column", "DataType", "Description">>
        IN  Reply(r.cs, to_csv(r.value, {output_columns}), ev, {r.value})

\* a handler that rejects a missing table but lets an empty one through
tool_get_columns_none_only(cs, table, catalog, schema, env) ==
    IF table = None
    THEN Reply(cs, "ERROR: table parameter is required", <<>>, None)
    ELSE GetColumnsBody(cs, table, catalog, schema, env)

\* the tool <prefix>_get_columns
tool_get_columns(cs, table, catalog, schema, env) ==
    IF ~Truthy(table)
    THEN Reply(cs, "ERROR: table parameter is required", <<>>, None)
    ELSE GetColumnsBody(cs, table, catalog, schema, env)

dangerous_keywords ==
    <<"INSERT", "UPDATE", "DELETE", "DROP", "CREATE", "ALTER", "TRUNCATE">>

\* a denylist that looks for the keywords at the start of the statement only
KeywordHitsAtStart(sql_upper) ==
    {i \in 1..Len(dangerous_keywords) : StartsWith(sql_upper, dangerous_keywords[i])}

\* the keywords of the list that occur in the upper-cased statement
KeywordHits(sql_upper) ==
    {i \in 1..Len(dangerous_keywords) : Contains(sql_upper, dangerous_keywords[i])}

\* the keyword that occurs earliest in the text, not the first of the list
FirstKeywordByPosition(sql_upper) ==
    LET pos(i) == CHOOSE p \in 1..Len(sql_upper) :
                     /\ StartsWith(SubSeq(sql_upper, p, Len(sql_upper)),
                                   dangerous_keywords[i])
                     /\ \A q \in 1..(p - 1) :
                           ~StartsWith(SubSeq(sql_upper, q, Len(sql_upper)),
                                       dangerous_keywords[i])
    IN  dangerous_keywords[CHOOSE i \in KeywordHits(sql_upper) :
                              \A j \in KeywordHits(sql_upper) : pos(i) <= pos(j)]

\* the first keyword of the list, in list order, that occurs
FirstKeyword(sql_upper) ==
    dangerous_keywords[CHOOSE i \in KeywordHits(sql_upper) :
                          \A j \in KeywordHits(sql_upper) : i <= j]

LimitNote ==
    "Note: Query result limited to 50 rows for performance. Use explicit LIMIT to change this."

\* a row cap that is withheld for LIMIT only, not for TOP
LimitAppliedUnlessLimit(sql_upper) == ~Contains(sql_upper, "LIMIT")

\* limit_applied: neither LIMIT nor TOP occurs in the upper-cased statement
LimitApplied(sql_upper) ==
    ~Contains(sql_upper, "LIMIT") /\ ~Contains(sql_upper, "TOP")

\* a response without the sentinel: an empty result is formatted like any
\* other
QueryResponseNoSentinel(rows, limit_applied) ==
    IF limit_applied
    THEN LimitNote \o "\n\n" \o to_csv(rows, None)
    ELSE to_csv(rows, None)

\* a response that carries the note whether or not the cap was appended
QueryResponseAlwaysNote(rows, limit_applied) ==
    IF Len(rows) = 0 THEN "Query returned no results."
    ELSE LimitNote \o "\n\n" \o to_csv(rows, None)

\* what run_query returns for the rows the connector gave it
QueryResponse(rows, limit_applied) ==
    IF Len(rows) = 0 THEN "Query returned no results."
    ELSE IF limit_applied
    THEN LimitNote \o "\n\n" \o to_csv(rows, None)
    ELSE to_csv(rows, None)

\* the try block of run_query, for a statement that passed the guards
RunAccepted(cs, sql, sql_upper, env) ==
    LET limit_applied == LimitApplied(sql_upper)
        stmt == IF limit_applied THEN sql \o " LIMIT 50" ELSE sql
        r == execute_query(cs, stmt, env)
        ev == <<Invoke("execute_query", stmt, <<>>)>> \o r.events
    IN  IF r.raised THEN Caught(r, ev)
        ELSE Reply(r.cs, QueryResponse(r.value, limit_applied), ev, {r.value})

\* the tool <prefix>_run_query
run_query(cs, sql, env) ==
    IF ~Truthy(sql)
    THEN Reply(cs, "ERROR: sql parameter is required", <<>>, None)
    ELSE
    LET sql_upper == Upper(Strip(Val(sql)))
    IN  IF ~StartsWith(sql_upper, "SELECT")
        THEN Reply(cs, "ERROR: Only SELECT statements are allowed", <<>>, None)
        ELSE IF KeywordHits(sql_upper) # {}
        THEN Reply(cs, "ERROR: " \o FirstKeyword(sql_upper)
                           \o " statements are not allowed", <<>>, None)
        ELSE RunAccepted(cs, Val(sql), sql_upper, env)

---------------------------------------------------------------------------
(* Inputs of the calls *)

\* nothing, or white space before the verb: a blank, a line end, a
\* vertical tab (0x0b) and a unit separator (0x1f)
SqlLeads == {"", " \n"}

SqlVerbs == {"SELECT", "select", "SELEC", "DROP"}

SqlRests ==
    {"", " * FROM T", " * from t limit 5", " top 3 * from t",
     " * FROM T; DELETE FROM T", " \"Drop\", 'insert' FROM T",
     " * FROM UPDATES", " * FROM stops ", " TABLE X"}

\* the sql argument of run_query: absent, empty, blank, or a statement
SqlArgs ==
    {None, Str(""), Str("  ")}
      \cup {Str(l \o v \o r) : l \in SqlLeads, v \in SqlVerbs, r \in SqlRests}

\* statements given to the connector's execute_query directly
ConnectorSql == {"SELECT 1 FROM DUMMY", "DROP TABLE X"}

TableArgs == {None, Str(""), Str("OITM")}

CatalogArgs == {None}

SchemaArgs == {None, Str("SBODEMO")}

SearchArgs == {None, Str("itm")}

LimitArgs == {50, 5}

QueryOutcomes ==
    {ResultSet(<<"ItemCode", "ItemName">>, <<>>),
     ResultSet(<<"ItemCode", "ItemName">>, << <<Str("A1"), None>> >>),
     ResultSet(<<"name", "value">>,
               << <<Str("Say \"Hello\""), Str("test")>>,
                  <<Str("Smith, John"), Str("")>> >>),
     ResultSet(<<"A", "A">>, << <<Str("1"), Str("2")>> >>),
     NoResultSet}
      \cup {BackendError(m) : m \in BackendErrorTexts}

ProbeOutcomes ==
    {ResultSet(<<"1">>, << <<Str("1")>> >>)}
      \cup {BackendError(m) : m \in BackendErrorTexts}

HanaTablesOutcomes ==
    {ResultSet(<<>>, <<>>),
     ResultSet(<<>>, << <<Str("SBODEMO"), Str("OITM"), Str("Items")>>,
                        <<Str("SBODEMO"), Str("ORDR"), None>> >>),
     ResultSet(<<>>, << <<Str(""), Str("T1"), None>> >>),
     ResultSet(<<>>, << <<Str(""), Str("T1"), None>>,
                        <<Str("SBODEMO"), Str("OITM"), Str("Items")>> >>)}
      \cup {BackendError(m) : m \in BackendErrorTexts}

HanaColumnsOutcomes ==
    {ResultSet(<<>>, <<>>),
     ResultSet(<<>>, << <<Str("SBODEMO"), Str("OITM"), Str("ItemCode"),
                          Str("NVARCHAR"), None>>,
                        <<Str("SBODEMO"), Str("OITM"), Str("ItemName"),
                          Str("NVARCHAR"), Str("Item, \"name\"")>> >>)}
      \cup {BackendError(m) : m \in BackendErrorTexts}

OdbcTable(cat, schem, name, remarks) ==
    [table_cat |-> cat, table_schem |-> schem, table_name |-> name,
     table_type |-> Str("TABLE"), remarks |-> remarks]

OdbcColumn(cat, schem, table, name, type, remarks) ==
    [table_cat |-> cat, table_schem |-> schem, table_name |-> table,
     column_name |-> name, type_name |-> type, remarks |-> remarks]

\* a row of cursor.columns() from a driver that reports no remarks
OdbcColumnNoRemarks(cat, schem, table, name, type) ==
    [table_cat |-> cat, table_schem |-> schem, table_name |-> table,
     column_name |-> name, type_name |-> type]

OdbcTablesOutcomes ==
    {ResultSet(<<>>, <<>>),
     ResultSet(<<>>, <<OdbcTable(None, Str("SBODEMO"), Str("OITM"), None),
                       OdbcTable(None, None, Str("T1"), Str("t"))>>),
     ResultSet(<<>>, <<OdbcTable(Str("DB"), None, Str("T1"), None)>>)}
      \cup {BackendError(m) : m \in BackendErrorTexts}

OdbcColumnsOutcomes ==
    {ResultSet(<<>>, <<>>),
     ResultSet(<<>>, <<OdbcColumn(None, Str("SBODEMO"), Str("OITM"),
                                  Str("ItemCode"), Str("NVARCHAR"), None)>>),
     ResultSet(<<>>, <<OdbcColumn(None, None, Str("T1"), Str("c"),
                                  Str("INTEGER"), Str("n"))>>),
     ResultSet(<<>>, <<OdbcColumn(Str("DB"), None, Str("T1"), Str("c"),
                                  Str("INTEGER"), None),
                       OdbcColumn(None, Str("S"), Str("T1"), Str("d"),
                                  Str("INTEGER"), None)>>),
     ResultSet(<<>>, <<OdbcColumnNoRemarks(None, Str("S"), Str("T1"),
                                           Str("c"), Str("INTEGER"))>>)}
      \cup {BackendError(m) : m \in BackendErrorTexts}

TablesOutcomes(v) == IF v = "hana" THEN HanaTablesOutcomes ELSE OdbcTablesOutcomes

ColumnsOutcomes(v) == IF v = "hana" THEN HanaColumnsOutcomes ELSE OdbcColumnsOutcomes

---------------------------------------------------------------------------
(* The state machine: one action per call, calls not overlapping.  A call  *)
(* is made when no result is pending (Idle); its result stays in `call`    *)
(* until the caller takes it (Deliver).                                    *)

NoCall ==
    [op |-> "init", arg |-> <<>>, raised |-> FALSE, exc |-> "", msg |-> "",
     ret |-> None, events |-> <<>>, got |-> None]

\* a connector as create_connector builds it: no connection yet
Init ==
    /\ variant \in {"hana", "odbc"}
    /\ driver \in BOOLEAN
    /\ connection = NoHandle
    /\ opened = {}
    /\ created = 0
    /\ last_error = None
    /\ call = NoCall
    /\ inflight = <<>>

Idle == call = NoCall

\* the call op(arg) ended with result r: the connector's fields and the
\* driver's handles are as r.cs says
Finish(op, arg, r) ==
    /\ r.cs.created <= MaxHandles
    /\ connection' = r.cs.connection
    /\ opened' = r.cs.opened
    /\ created' = r.cs.created
    /\ last_error' = r.cs.last_error
    /\ call' = [op |-> op, arg |-> arg, raised |-> r.raised, exc |-> r.exc,
                msg |-> r.msg, ret |-> r.value, events |-> r.events,
                got |-> r.got]
    /\ UNCHANGED <<variant, driver, inflight>>

Connect ==
    /\ Idle
    /\ \E c \in ConnectOutcomes, g \in BOOLEAN :
        Finish("connect", <<>>, connect(Connector, Env(c, NoResultSet, g)))

Close ==
    /\ Idle
    /\ Finish("close", <<>>, close(Connector))

GetTables ==
    /\ Idle
    /\ \E c \in ConnectOutcomes, b \in TablesOutcomes(variant),
          catalog \in CatalogArgs, schema \in SchemaArgs :
        IF variant = "hana"
        THEN \E search \in SearchArgs, limit \in LimitArgs :
                Finish("get_tables", <<catalog, schema, search>>,
                       HanaGetTables(Connector, catalog, schema, search, limit,
                                     Env(c, b, FALSE)))
        ELSE Finish("get_tables", <<catalog, schema>>,
                    OdbcGetTables(Connector, catalog, schema, Env(c, b, FALSE)))

GetColumns ==
    /\ Idle
    /\ \E c \in ConnectOutcomes, b \in ColumnsOutcomes(variant),
          table \in TableArgs, catalog \in CatalogArgs, schema \in SchemaArgs :
        Finish("get_columns", <<table, catalog, schema>>,
               ConnectorGetColumns(Connector, table, catalog, schema,
                                   Env(c, b, FALSE)))

ExecuteQuery ==
    /\ Idle
    /\ \E c \in ConnectOutcomes, b \in QueryOutcomes, sql \in ConnectorSql :
        Finish("execute_query", sql,
               execute_query(Connector, sql, Env(c, b, FALSE)))

TestConnection ==
    /\ Idle
    /\ \E c \in ConnectOutcomes, b \in ProbeOutcomes :
        Finish("test_connection", <<>>,
               test_connection(Connector, Env(c, b, FALSE)))

GetLastError ==
    /\ Idle
    /\ Finish("get_last_error", <<>>, ConnectorGetLastError(Connector))

ToolGetTables ==
    /\ Idle
    /\ \E c \in ConnectOutcomes, b \in TablesOutcomes(variant),
          catalog \in CatalogArgs, schema \in SchemaArgs,
          search \in SearchArgs, limit \in LimitArgs :
        Finish("tool_get_tables", <<catalog, schema, search>>,
               tool_get_tables(Connector, catalog, schema, search, limit,
                               Env(c, b, FALSE)))

ToolGetColumns ==
    /\ Idle
    /\ \E c \in ConnectOutcomes, b \in ColumnsOutcomes(variant),
          table \in TableArgs, catalog \in CatalogArgs, schema \in SchemaArgs :
        Finish("tool_get_columns", <<table, catalog, schema>>,
               tool_get_columns(Connector, table, catalog, schema,
                                Env(c, b, FALSE)))

ToolRunQuery ==
    /\ Idle
    /\ \E c \in ConnectOutcomes, b \in QueryOutcomes, sql \in SqlArgs :
        Finish("run_query", sql, run_query(Connector, sql, Env(c, b, FALSE)))

\* the caller takes the pending result
Deliver ==
    /\ ~Idle
    /\ call' = NoCall
    /\ UNCHANGED <<variant, driver, connection, opened, created, last_error,
                   inflight>>

Next ==
    \/ Deliver
    \/ Connect
    \/ Close
    \/ GetTables
    \/ GetColumns
    \/ ExecuteQuery
    \/ TestConnection
    \/ GetLastError
    \/ ToolGetTables
    \/ ToolGetColumns
    \/ ToolRunQuery

Spec == Init /\ [][Next]_vars

---------------------------------------------------------------------------
(* Properties *)

ToolOps == {"tool_get_tables", "tool_get_columns", "run_query"}

\* positions in a trace where the handler invoked the connector method
Invocations(events, method) ==
    {i \in 1..Len(events) : events[i].ev = "call:" \o method}

\* positions where the driver's connect was called
ConnectAttempts(events) == {i \in 1..Len(events) : events[i].ev = "connect"}

\* positions where a statement or catalog call was given to the backend
Dispatches(events) ==
    {i \in 1..Len(events) : events[i].ev \in {"execute", "tables", "columns"}}

DeniedWords ==
    {"INSERT", "UPDATE", "DELETE", "DROP", "CREATE", "ALTER", "TRUNCATE"}

\* non-empty, begins with SELECT once trimmed and upper-cased, and its
\* upper-cased text contains no denied word
PassesGuards(s) ==
    /\ Len(s) > 0
    /\ StartsWith(Upper(Strip(s)), "SELECT")
    /\ \A w \in DeniedWords : ~Contains(Upper(s), w)

Rejected(arg) == ~Truthy(arg) \/ ~PassesGuards(Val(arg))

\* C1: run_query invokes execute_query only for a statement that is
\* non-empty, begins with SELECT (trimmed, upper-cased) and contains no
\* denied keyword; a rejected call invokes nothing on the connector, opens
\* no connection and leaves the connector as it was.
C1_OnlyGuardedStatementsReachConnector ==
    [][call'.op = "run_query" =>
          /\ (\/ call'.events # <<>>
               \/ ~UNCHANGED <<connection, opened, created, last_error>>)
                => ~Rejected(call'.arg)
          /\ \A i \in Invocations(call'.events, "execute_query") :
                PassesGuards(call'.events[i].text)]_vars

C1_Witness ==
    /\ call.op = "run_query"
    /\ call.arg = Str(" \nselect * from t limit 5")
    /\ Invocations(call.events, "execute_query") # {}
    /\ Dispatches(call.events) # {}

\* the denied words in the scan order the claim gives
ScanOrder == <<"INSERT", "UPDATE", "DELETE", "DROP", "CREATE", "ALTER", "TRUNCATE">>

\* C2: the rejection message follows a strict order: missing or empty sql,
\* then the SELECT prefix check, then the first denied keyword in the fixed
\* scan order that occurs anywhere in the text.
C2_RejectionMessageOrder ==
    call.op = "run_query" =>
        IF ~Truthy(call.arg)
        THEN call.ret = "ERROR: sql parameter is required"
        ELSE IF ~StartsWith(Upper(Strip(Val(call.arg))), "SELECT")
        THEN call.ret = "ERROR: Only SELECT statements are allowed"
        ELSE \A i \in 1..Len(ScanOrder) :
                (/\ Contains(Upper(Val(call.arg)), ScanOrder[i])
                 /\ \A j \in 1..(i - 1) :
                       ~Contains(Upper(Val(call.arg)), ScanOrder[j]))
                => call.ret = "ERROR: " \o ScanOrder[i]
                                \o " statements are not allowed"

\* DROP occurs before INSERT in the text, INSERT is first in the scan order
C2_Witness ==
    /\ call.op = "run_query"
    /\ call.arg = Str("select \"Drop\", 'insert' FROM T")
    /\ call.ret = "ERROR: INSERT statements are not allowed"

\* C3: an accepted statement is dispatched to execute_query exactly once:
\* with " LIMIT 50" appended if neither LIMIT nor TOP occurs in it
\* (case-insensitively), unchanged otherwise.
C3_RowCapAppended ==
    (call.op = "run_query" /\ ~Rejected(call.arg)) =>
        LET s == Val(call.arg)
            capless == /\ ~Contains(Upper(s), "LIMIT")
                       /\ ~Contains(Upper(s), "TOP")
            calls == Invocations(call.events, "execute_query")
        IN  /\ Cardinality(calls) = 1
            /\ \A i \in calls :
                  call.events[i].text = IF capless THEN s \o " LIMIT 50" ELSE s
            /\ \A i \in Dispatches(call.events) :
                  call.events[i].text = IF capless THEN s \o " LIMIT 50" ELSE s

C3_Witness ==
    /\ call.op = "run_query"
    /\ call.arg = Str("SELECT * FROM T")
    /\ \E i \in Dispatches(call.events) :
          call.events[i].text = "SELECT * FROM T LIMIT 50"

\* the row cap was appended for the call in `call`
CapAppended ==
    \E i \in Invocations(call.events, "execute_query") :
        call.events[i].text = Val(call.arg) \o " LIMIT 50"

\* C4: for a non-empty connector result, the response begins with the
\* row-cap note and a blank line, followed by the formatted table, iff the
\* cap was appended; otherwise it is exactly the formatted table.
C4_NoteIffCapAppended ==
    (call.op = "run_query" /\ call.got # None /\ Len(Val(call.got)) > 0) =>
        LET table == to_csv(Val(call.got), None)
            note == "Note: Query result limited to 50 rows for performance. Use explicit LIMIT to change this."
        IN  /\ CapAppended <=> StartsWith(call.ret, note)
            /\ CapAppended => call.ret = note \o "\n\n" \o table
            /\ ~CapAppended => call.ret = table

C4_Witness ==
    /\ call.op = "run_query"
    /\ call.got # None
    /\ Len(Val(call.got)) = 2
    /\ CapAppended
    /\ StartsWith(call.ret, LimitNote \o "\n\n\"name\",\"value\"\r\n")

\* C5: no exception crosses the tool-handler boundary: every handler call
\* returns one string, and a failure raised by the connector (missing
\* driver, connection failure, backend error, unsupported argument) comes
\* back as "ERROR: <message>".
C5_NoExceptionCrossesHandler ==
    call.op \in ToolOps =>
        /\ ~call.raised
        /\ call.ret \in STRING
        /\ (\E i \in 1..Len(call.events) : ~call.events[i].ok) => call.exc # ""
        /\ (call.got = None /\ call.events # <<>>) => call.exc # ""
        /\ call.exc # "" =>
              /\ call.ret = "ERROR: " \o call.msg
              /\ call.exc \in {"ImportError", "Error", "TypeError"}

\* the generic variant's get_tables does not take search and limit
C5_Witness ==
    /\ call.op = "tool_get_tables"
    /\ variant = "odbc"
    /\ call.exc = "TypeError"
    /\ call.ret = "ERROR: OdbcConnector.get_tables() got an unexpected keyword argument 'search'"

\* C6: get_columns with a missing or empty table returns exactly
\* "ERROR: table parameter is required" without invoking the connector: the
\* connection slot and the backend are as before.
C6_MissingTableRejectedBeforeConnector ==
    [][(call'.op = "tool_get_columns" /\ ~Truthy(call'.arg[1])) =>
          /\ call'.ret = "ERROR: table parameter is required"
          /\ call'.events = <<>>
          /\ UNCHANGED <<connection, opened, created, last_error>>]_vars

C6_Witness ==
    /\ call.op = "tool_get_columns"
    /\ call.arg[1] = Str("")
    /\ call.ret = "ERROR: table parameter is required"
    /\ connection = NoHandle
    /\ opened = {}

\* C7: at most one backend connection opened by the connector is still open;
\* connect() over a stored handle does not leave the prior handle open.
C7_AtMostOneOpenConnection == Cardinality(opened) <= 1

LazyOps == {"get_tables", "get_columns", "execute_query", "test_connection"}

\* C8: the connection is created lazily and reused: the driver's connect is
\* called only when the slot is empty; a call made while a handle is stored
\* uses that handle and opens no other; a failed connect leaves the slot
\* empty, so the next call connects again.
C8_LazyConnectionReused ==
    [][call'.op \notin {"init", "connect", "close"} =>
          LET ev == call'.events
          IN  /\ ConnectAttempts(ev) # {} => connection = NoHandle
              /\ Cardinality(ConnectAttempts(ev)) <= 1
              /\ connection # NoHandle =>
                    /\ UNCHANGED <<connection, opened, created>>
                    /\ \A i \in Dispatches(ev) : ev[i].h = connection
              /\ \A i \in ConnectAttempts(ev) :
                    IF ev[i].ok
                    THEN /\ connection' = ev[i].h
                         /\ \A j \in Dispatches(ev) : ev[j].h = ev[i].h
                    ELSE /\ connection' = NoHandle
                         /\ opened' = opened
                         /\ Dispatches(ev) = {}
              /\ (call'.op \in LazyOps /\ connection = NoHandle /\ driver)
                    => ConnectAttempts(ev) # {}]_vars

\* a call on a stored handle: dispatched on it, no connect
C8_Witness ==
    /\ call.op = "execute_query"
    /\ connection # NoHandle
    /\ ConnectAttempts(call.events) = {}
    /\ \E i \in Dispatches(call.events) : call.events[i].h = connection

\* C9: close() releases the stored connection and empties the slot, and is
\* a no-op that does not raise on an empty slot (so close; close leaves what
\* close leaves); a call after close opens a fresh connection and nothing
\* is dispatched on a closed handle.
C9_CloseReleasesAndResets ==
    [][/\ call'.op = "close" =>
              /\ ~call'.raised
              /\ connection' = NoHandle
              /\ UNCHANGED <<created, last_error>>
              /\ IF connection # NoHandle
                 THEN /\ opened' = opened \ {connection}
                      /\ Len(call'.events) = 1
                      /\ call'.events[1].ev = "close"
                      /\ call'.events[1].h = connection
                 ELSE /\ opened' = opened
                      /\ call'.events = <<>>
       /\ call'.op \notin {"init", "close"} =>
              \A i \in 1..Len(call'.events) :
                  /\ (call'.events[i].ev = "connect" /\ call'.events[i].ok)
                        => call'.events[i].h > created
                  /\ i \in Dispatches(call'.events)
                        => /\ call'.events[i].h \in opened'
                           /\ call'.events[i].h = connection']_vars

C9_Witness ==
    /\ call.op = "close"
    /\ Len(call.events) = 1
    /\ connection = NoHandle
    /\ opened = {}
    /\ created = 2

\* the probe statement ran to completion on the stored, open handle
ProbeCompleted ==
    /\ Len(call.events) > 0
    /\ call.events[Len(call.events)].ev = "execute"
    /\ call.events[Len(call.events)].ok
    /\ call.events[Len(call.events)].h = connection
    /\ connection \in opened
    /\ \A i \in 1..Len(call.events) : call.events[i].ok

\* C10: test_connection() never raises; it returns false when the driver is
\* missing, the connection cannot be established or the probe fails, and
\* true only when the probe completed on a live connection.
C10_TestConnectionNeverRaises ==
    call.op = "test_connection" =>
        /\ ~call.raised
        /\ call.ret \in BOOLEAN
        /\ call.ret <=> ProbeCompleted
        /\ ~driver => ~call.ret
        /\ (\E i \in 1..Len(call.events) : ~call.events[i].ok) => ~call.ret

C10_Witness ==
    /\ call.op = "test_connection"
    /\ call.ret = FALSE
    /\ \E i \in Dispatches(call.events) : ~call.events[i].ok

---------------------------------------------------------------------------
(* Reading the formatter's output back: a reader of comma-separated,      *)
(* double-quoted text.  A record ends at a \r\n outside quotes; inside     *)
(* quotes a doubled quote is one quote character.                          *)

RECURSIVE ReadQuoted(_, _, _)
\* the field whose opening quote precedes position i: its text, and the
\* position after its closing quote
ReadQuoted(s, i, text) ==
    IF i > Len(s) THEN [text |-> text, next |-> i]
    ELSE IF CharAt(s, i) = "\""
    THEN IF i < Len(s) /\ CharAt(s, i + 1) = "\""
         THEN ReadQuoted(s, i + 2, text \o "\"")
         ELSE [text |-> text, next |-> i + 1]
    ELSE ReadQuoted(s, i + 1, text \o CharAt(s, i))

RECURSIVE ReadCsvFrom(_, _, _, _)
ReadCsvFrom(s, i, record, records) ==
    IF i > Len(s)
    THEN IF Len(record) > 0 THEN Append(records, record) ELSE records
    ELSE
    LET c == CharAt(s, i)
        d == IF i < Len(s) THEN CharAt(s, i + 1) ELSE ""
    IN  IF c = "\""
        THEN LET f == ReadQuoted(s, i + 1, "")
             IN  ReadCsvFrom(s, f.next, Append(record, f.text), records)
        ELSE IF c = ","
        THEN ReadCsvFrom(s, i + 1,
                         IF d = "\"" THEN record ELSE Append(record, ""),
                         records)
        ELSE IF c = "\r" /\ d = "\n"
        THEN ReadCsvFrom(s, i + 2, <<>>, Append(records, record))
        ELSE \* text outside quotes: not the formatter's output
             Append(records, Append(record, SubSeq(s, i, Len(s))))

\* the records of a text, each the sequence of its un-quoted fields
ReadCsv(s) == ReadCsvFrom(s, 1, <<>>, <<>>)

\* C11: whenever test_connection() has returned false, on either variant,
\* the connector's last-error accessor is available and returns a non-empty
\* message: the error text of that failure.
C11_LastErrorAfterFailedProbe ==
    (call.op = "test_connection" /\ call.ret = FALSE) =>
        LET r == ConnectorGetLastError(Connector)
        IN  /\ ~r.raised
            /\ r.value # ""
            /\ r.value = call.msg

\* C12: list-tables never fails because a filter is unsupported: with the
\* driver present, the connection established and the backend answering, the
\* handler returns the connector's tables or "No tables found.", never an
\* "ERROR: ..." string, for either variant and whatever filters are given.
C12_ListTablesDegradesGracefully ==
    (/\ call.op = "tool_get_tables"
     /\ driver
     /\ \A i \in 1..Len(call.events) : call.events[i].ok) =>
        /\ ~StartsWith(call.ret, "ERROR: ")
        /\ call.got # None
        /\ Len(Val(call.got)) = 0 <=> call.ret = "No tables found."

ListOps == {"tool_get_tables", "tool_get_columns"}

\* some record of the batch has a non-empty value under key
NonEmptyIn(rows, key) ==
    \E i \in 1..Len(rows) : Get(rows[i], key) \notin {None, Str("")}

\* C13: the output columns of a non-empty list-tables or list-columns result
\* are Catalog iff some record has a non-empty Catalog, then Schema iff some
\* record has a non-empty Schema, then always Table, Description (tables) or
\* Table, Column, DataType, Description (columns), in that order.
C13_OutputColumnsPerBatch ==
    (call.op \in ListOps /\ call.got # None /\ Len(Val(call.got)) > 0) =>
        LET rows == Val(call.got)
            fixed == IF call.op = "tool_get_tables"
                     THEN <<"Table", "Description">>
                     ELSE <<"Table", "Column", "DataType", "Description">>
            expected ==
                (IF NonEmptyIn(rows, "Catalog") THEN <<"Catalog">> ELSE <<>>)
                  \o (IF NonEmptyIn(rows, "Schema") THEN <<"Schema">> ELSE <<>>)
                  \o fixed
            records == ReadCsv(call.ret)
        IN  /\ Len(records) = 1 + Len(rows)
            /\ records[1] = expected
            /\ \A i \in 2..Len(records) : Len(records[i]) = Len(expected)

\* a batch where one record has a catalog and another a schema
C13_Witness ==
    /\ call.op = "tool_get_columns"
    /\ call.got # None
    /\ Len(Val(call.got)) = 2
    /\ ReadCsv(call.ret)[1]
          = <<"Catalog", "Schema", "Table", "Column", "DataType", "Description">>
    /\ ReadCsv(call.ret)[2] = <<"DB", "", "T1", "c", "INTEGER", "">>

\* C14: when the connector returns an empty collection without raising,
\* list-tables returns "No tables found.", list-columns returns "No columns
\* found for table: <table>" with the caller's table name, and run-query
\* returns exactly "Query returned no results.", with no row-cap note even
\* when " LIMIT 50" was appended.
C14_EmptyResultSentinel ==
    (call.op \in ToolOps /\ call.got # None /\ Len(Val(call.got)) = 0) =>
        call.ret = CASE call.op = "tool_get_tables" -> "No tables found."
                     [] call.op = "tool_get_columns" ->
                            "No columns found for table: " \o Val(call.arg[1])
                     [] call.op = "run_query" -> "Query returned no results."

C14_Witness ==
    /\ call.op = "run_query"
    /\ call.got = {<<>>}
    /\ CapAppended
    /\ call.ret = "Query returned no results."

\* C15: connect() either establishes and stores the live connection, or
\* fails with a ConnectionError-kind failure; a missing driver library is
\* the distinct DriverMissing kind (ImportError); the driver's own exception
\* is never what the caller receives.
C15_ConnectFailureKinds ==
    call.op = "connect" =>
        IF call.raised
        THEN call.exc = IF driver THEN "ConnectionError" ELSE "ImportError"
        ELSE /\ connection # NoHandle
             /\ connection \in opened
             /\ call.ret = connection

\* C16: the connector's get_columns requires table: with table absent or
\* empty the call fails, on both variants, and issues no catalog query to
\* the backend.
C16_ListColumnsRequiresTable ==
    (call.op = "get_columns" /\ ~Truthy(call.arg[1])) =>
        /\ call.raised
        /\ Dispatches(call.events) = {}

---------------------------------------------------------------------------
(* The formatter on its own: to_csv applied to row collections and column  *)
(* lists drawn from bounded sets.                                          *)

MaxRows == 2

CsvValues ==
    {None, Str(""), Str("1"), Str("Say \"Hello\""), Str("Smith, John"),
     Str("x\ny")}

\* row dictionaries: no key, one key, two keys in either order, the rows of
\* the repository's tests, and a key that contains a quote
CsvDicts ==
    {<<>>}
      \cup {<< <<"a", v>> >> : v \in CsvValues}
      \cup {<< <<"a", v>>, <<"b", Str("2")>> >> : v \in CsvValues}
      \cup {<< <<"b", Str("2")>>, <<"a", v>> >> : v \in CsvValues}
      \cup {<< <<"b", Str("2")>>, <<"a", Str("1")>>, <<"c", Str("3")>> >>,
            << <<"name", Str("Say \"Hello\"")>>, <<"value", Str("test")>> >>,
            << <<"q\"k", Str("1")>> >>}

CsvRows == UNION {[1..n -> CsvDicts] : n \in 0..MaxRows}

\* the columns argument: omitted (None) or a list
CsvColumnArgs ==
    {None, {<<>>}, {<<"a">>}, {<<"a", "b">>}, {<<"a", "b", "c">>},
     {<<"b", "z", "a">>}}

\* a caller holding rows and a column list, before it calls to_csv
InitCsv ==
    /\ variant = "hana"
    /\ driver = TRUE
    /\ connection = NoHandle
    /\ opened = {}
    /\ created = 0
    /\ last_error = None
    /\ inflight = <<>>
    /\ \E rows \in CsvRows, columns \in CsvColumnArgs :
          call = [NoCall EXCEPT !.op = "rows", !.arg = <<rows, columns>>]

\* to_csv(rows, columns)
ToCsv ==
    /\ call.op = "rows"
    /\ call' = [call EXCEPT !.op = "to_csv",
                            !.ret = to_csv(call.arg[1], call.arg[2])]
    /\ UNCHANGED <<variant, driver, connection, opened, created, last_error,
                   inflight>>

NextCsv == ToCsv

SpecCsv == InitCsv /\ [][NextCsv]_vars

\* the number of lines of a text: each line ends with a newline character
LineCount(s) == Cardinality({i \in 1..Len(s) : CharAt(s, i) = "\n"})

\* s.split("\n")[0]
FirstLine(s) ==
    LET ends == {i \in 1..Len(s) : CharAt(s, i) = "\n"}
    IN  IF ends = {} THEN s
        ELSE SubSeq(s, 1, (CHOOSE i \in ends : \A j \in ends : i <= j) - 1)

UniformKeys(rows) ==
    \A i \in 1..Len(rows) :
        {rows[i][k][1] : k \in 1..Len(rows[i])}
          = {rows[1][k][1] : k \in 1..Len(rows[1])}

\* the columns to_csv is to write: the requested ones, or the first row's keys
ListedColumns(rows, columns) ==
    IF columns = None THEN [k \in 1..Len(rows[1]) |-> rows[1][k][1]]
    ELSE Val(columns)

\* the text of a value: NULL is written as the empty field
FieldText(v) == IF v = None THEN "" ELSE Val(v)

\* C17: format of an empty row collection is the empty string, whatever
\* columns are requested, and format of N > 0 rows with uniform keys has
\* exactly 1 + N lines, for any field values.
C17_OneLinePerRecord ==
    call.op = "to_csv" =>
        LET rows == call.arg[1]
        IN  /\ Len(rows) = 0 => call.ret = ""
            /\ (Len(rows) > 0 /\ UniformKeys(rows))
                  => LineCount(call.ret) = 1 + Len(rows)

RECURSIVE JoinQuoted(_)
\* "n1","n2",...
JoinQuoted(names) ==
    IF Len(names) = 0 THEN ""
    ELSE "\"" \o names[1] \o "\""
           \o (IF Len(names) > 1 THEN "," ELSE "") \o JoinQuoted(Tail(names))

\* C18: for non-empty rows, the first line of the output, obtained by
\* splitting on the newline character, is exactly the column names, each
\* double-quoted, joined by commas, with nothing else on the line: the
\* requested columns in the requested order, or the first row's keys.
C18_HeaderLineExact ==
    (call.op = "to_csv" /\ Len(call.arg[1]) > 0) =>
        FirstLine(call.ret)
          = JoinQuoted(ListedColumns(call.arg[1], call.arg[2]))

\* C19: every header and data field is written inside double quotes, a
\* quote inside a value is doubled and a comma stays inside its quoted
\* span: reading the output back gives, for every row, as many fields as
\* columns and the original text of every value the row has.
C19_QuotingRoundTrip ==
    (call.op = "to_csv" /\ Len(call.arg[1]) > 0) =>
        LET rows == call.arg[1]
            cols == ListedColumns(rows, call.arg[2])
            records == ReadCsv(call.ret)
        IN  /\ Len(records) = 1 + Len(rows)
            /\ records[1] = cols
            /\ \A r \in 1..Len(rows) :
                  /\ Len(records[r + 1]) = Len(cols)
                  /\ \A i \in 1..Len(cols) :
                        HasKey(rows[r], cols[i])
                          => records[r + 1][i] = FieldText(Get(rows[r], cols[i]))

C19_Witness ==
    /\ call.op = "to_csv"
    /\ call.arg = << << << <<"a", Str("Say \"Hello\"")>> >>,
                       << <<"a", Str("Smith, John")>> >> >>, None >>
    /\ call.ret = "\"a\"\r\n\"Say \"\"Hello\"\"\"\r\n\"Smith, John\"\r\n"

\* C20: every data line has exactly one field per listed column, in listed
\* order: a column the row lacks gives an empty quoted field, and a key of
\* the row that is not a listed column is dropped, also a key of a later
\* row that the first row lacks when the columns are inferred.
C20_OneFieldPerListedColumn ==
    (call.op = "to_csv" /\ Len(call.arg[1]) > 0) =>
        LET rows == call.arg[1]
            cols == ListedColumns(rows, call.arg[2])
            records == ReadCsv(call.ret)
        IN  /\ call.ret \in STRING
            /\ Len(records) = 1 + Len(rows)
            /\ \A r \in 1..Len(rows) :
                  records[r + 1]
                    = [i \in 1..Len(cols) |->
                          IF \E k \in 1..Len(rows[r]) : rows[r][k][1] = cols[i]
                          THEN FieldText(Get(rows[r], cols[i]))
                          ELSE ""]

\* columns inferred from a first row with key a only; the second row has
\* b as well, which is dropped
C20_Witness ==
    /\ call.op = "to_csv"
    /\ call.arg = << << << <<"a", Str("1")>> >>,
                       << <<"b", Str("2")>>, <<"a", None>> >> >>, None >>
    /\ call.ret = "\"a\"\r\n\"1\"\r\n\"\"\r\n"

---------------------------------------------------------------------------
(* Startup: validate_config, create_connector and create_server.  A Config *)
(* is the record load_config returned: the server's name and prefix and    *)
(* the connector section, a dict.  Logging setup has no part in it.        *)

\* d.get(k, default)
GetOr(d, k, default) == IF HasKey(d, k) THEN Get(d, k) ELSE default

\* f"{x}" of an optional string
PyStr(v) == IF v = None THEN "None" ELSE Val(v)

\* Config.connector_type
connector_type(config) == GetOr(config.connector, "type", Str("hana"))

\* a validation that accepts any connector type
validate_config_any_type(config) ==
    (IF ~Truthy(config.name) THEN <<"Server name is required">> ELSE <<>>)
      \o (IF ~Truthy(config.prefix) THEN <<"Server prefix is required">> ELSE <<>>)
      \o (IF connector_type(config) = Str("hana")
          THEN (IF ~Truthy(GetOr(config.connector, "host", Str("")))
                THEN <<"HANA host is required">> ELSE <<>>)
                 \o (IF ~Truthy(GetOr(config.connector, "user", Str("")))
                     THEN <<"HANA user is required">> ELSE <<>>)
                 \o (IF ~Truthy(GetOr(config.connector, "password", Str("")))
                     THEN <<"HANA password is required">> ELSE <<>>)
          ELSE IF connector_type(config) = Str("odbc")
          THEN (IF ~Truthy(GetOr(config.connector, "connection_string", Str("")))
                THEN <<"ODBC connection_string is required">> ELSE <<>>)
          ELSE <<>>)

\* validate_config(config): the list of errors
validate_config(config) ==
    (IF ~Truthy(config.name) THEN <<"Server name is required">> ELSE <<>>)
      \o (IF ~Truthy(config.prefix) THEN <<"Server prefix is required">> ELSE <<>>)
      \o (IF connector_type(config) = Str("hana")
          THEN (IF ~Truthy(GetOr(config.connector, "host", Str("")))
                THEN <<"HANA host is required">> ELSE <<>>)
                 \o (IF ~Truthy(GetOr(config.connector, "user", Str("")))
                     THEN <<"HANA user is required">> ELSE <<>>)
                 \o (IF ~Truthy(GetOr(config.connector, "password", Str("")))
                     THEN <<"HANA password is required">> ELSE <<>>)
          ELSE IF connector_type(config) = Str("odbc")
          THEN (IF ~Truthy(GetOr(config.connector, "connection_string", Str("")))
                THEN <<"ODBC connection_string is required">> ELSE <<>>)
          ELSE <<"Unknown connector type: " \o PyStr(connector_type(config))>>)

\* create_connector(config): a connector of the configured variant with an
\* empty slot, or ValueError
create_connector(cs, config) ==
    IF connector_type(config) \in {Str("hana"), Str("odbc")}
    THEN Return([cs EXCEPT !.variant = Val(connector_type(config)),
                           !.connection = NoHandle, !.last_error = None],
                None,
                <<Event("create_connector", NoHandle,
                        Val(connector_type(config)), <<>>, TRUE)>>)
    ELSE Raise(cs, "ValueError",
               "Unknown connector type: " \o PyStr(connector_type(config)),
               <<Event("create_connector", NoHandle, "", <<>>, FALSE)>>)

RECURSIVE ErrorLines(_)
\* "\n".join(f"  - {e}" for e in errors)
ErrorLines(errors) ==
    IF Len(errors) = 0 THEN ""
    ELSE "  - " \o errors[1]
           \o (IF Len(errors) > 1 THEN "\n" ELSE "") \o ErrorLines(Tail(errors))

\* SapMcpServer(config, connector): register_all_tools registers the three
\* tools under the configured prefix
SapMcpServer(cs, config, events) ==
    Return(cs,
           [name |-> config.name,
            tools |-> <<PyStr(config.prefix) \o "_get_tables",
                        PyStr(config.prefix) \o "_get_columns",
                        PyStr(config.prefix) \o "_run_query">>],
           events
             \o <<Event("register", NoHandle,
                        PyStr(config.prefix) \o "_get_tables", <<>>, TRUE),
                  Event("register", NoHandle,
                        PyStr(config.prefix) \o "_get_columns", <<>>, TRUE),
                  Event("register", NoHandle,
                        PyStr(config.prefix) \o "_run_query", <<>>, TRUE)>>)

\* a startup that goes on to build the server when the probe failed
ConnectionFailedIgnored(cs, config, events) == SapMcpServer(cs, config, events)

\* create_server when test_connection() returned False
ConnectionFailed(cs, config, events) ==
    LET e == ConnectorGetLastError(cs)
    IN  Raise(cs, "ConnectionError",
              "Failed to connect to database."
                \o (IF e.raised THEN "" ELSE "\nDetails: " \o e.value)
                \o "\n\nPlease check your configuration.",
              events)

\* create_server, from the Config that load_config returned
create_server(cs, config, env) ==
    LET errors == validate_config(config)
        checked == <<Event("validate", NoHandle, "", <<>>, Len(errors) = 0)>>
    IN  IF Len(errors) > 0
        THEN Raise(cs, "ValueError",
                   "Configuration errors:\n" \o ErrorLines(errors), checked)
        ELSE
        LET c == create_connector(cs, config)
        IN  IF c.raised THEN Raise(c.cs, c.exc, c.msg, checked \o c.events)
            ELSE
            LET t == test_connection(c.cs, env)
                ev == checked \o c.events \o t.events
                        \o <<Event("test_connection", NoHandle, "", <<>>,
                                   t.value)>>
            IN  IF ~t.value THEN ConnectionFailed(t.cs, config, ev)
                ELSE SapMcpServer(t.cs, config, ev)

ConfigNames == {Str(""), Str("sap")}

ConfigPrefixes == {Str(""), Str("sap_hana")}

\* a key the connector section does not have
Absent == {"", "absent"}

\* an optional entry of the connector section
Entry(k, v) == IF v = Absent THEN <<>> ELSE << <<k, v>> >>

ConnectorSections ==
    {Entry("type", t) \o Entry("host", h) \o Entry("user", u)
       \o Entry("password", p) \o Entry("connection_string", cstr) :
         t \in {Absent, None, Str("hana"), Str("odbc"), Str("mssql")},
         h \in {Absent, Str(""), Str("hanahost")},
         u \in {Absent, Str("SYSTEM")},
         p \in {Str(""), Str("secret")},
         cstr \in {Absent, Str(""), Str("DSN=HANA")}}

Configs ==
    {[name |-> n, prefix |-> p, connector |-> c] :
        n \in ConfigNames, p \in ConfigPrefixes, c \in ConnectorSections}

\* the process before create_server: a Config loaded, no connector yet
InitStartup ==
    /\ variant = "none"
    /\ driver \in BOOLEAN
    /\ connection = NoHandle
    /\ opened = {}
    /\ created = 0
    /\ last_error = None
    /\ inflight = <<>>
    /\ \E config \in Configs :
          call = [NoCall EXCEPT !.op = "config", !.arg = config]

CreateServer ==
    /\ call.op = "config"
    /\ \E c \in ConnectOutcomes, b \in ProbeOutcomes :
          LET r == create_server(Connector, call.arg, Env(c, b, FALSE))
          IN  /\ variant' = r.cs.variant
              /\ connection' = r.cs.connection
              /\ opened' = r.cs.opened
              /\ created' = r.cs.created
              /\ last_error' = r.cs.last_error
              /\ call' = [op |-> "create_server", arg |-> call.arg,
                          raised |-> r.raised, exc |-> r.exc, msg |-> r.msg,
                          ret |-> r.value, events |-> r.events, got |-> r.got]
              /\ UNCHANGED <<driver, inflight>>

NextStartup == CreateServer

SpecStartup == InitStartup /\ [][NextStartup]_vars

\* positions of the steps of one kind in a trace
Positions(events, kind) == {i \in 1..Len(events) : events[i].ev = kind}

\* C21: create_server registers the three tools and returns a server only
\* after, in order, the configuration validated with no errors and
\* test_connection() returned true; with a validation error no connector is
\* created and no connection attempted; with test_connection() false a
\* ConnectionError is raised and no tool is registered.
C21_StartupGating ==
    call.op = "create_server" =>
        LET ev == call.events
            regs == Positions(ev, "register")
            valid == \E i \in Positions(ev, "validate") : ev[i].ok
            probed == \E i \in Positions(ev, "test_connection") : ev[i].ok
        IN  /\ ~call.raised <=> regs # {}
            /\ regs # {} =>
                  /\ Cardinality(regs) = 3
                  /\ {ev[i].text : i \in regs}
                       = {PyStr(call.arg.prefix) \o t :
                             t \in {"_get_tables", "_get_columns", "_run_query"}}
                  /\ \E v \in Positions(ev, "validate"),
                        t \in Positions(ev, "test_connection") :
                        /\ ev[v].ok /\ ev[t].ok /\ v < t
                        /\ \A r \in regs : t < r
                  /\ connection # NoHandle /\ connection \in opened
            /\ ~valid =>
                  /\ call.raised /\ call.exc = "ValueError"
                  /\ Positions(ev, "create_connector") = {}
                  /\ ConnectAttempts(ev) = {} /\ Dispatches(ev) = {}
                  /\ variant = "none" /\ connection = NoHandle /\ opened = {}
            /\ (valid /\ ~probed) =>
                  /\ call.raised /\ call.exc = "ConnectionError"
                  /\ regs = {}

C21_Witness ==
    /\ call.op = "create_server"
    /\ variant = "odbc"
    /\ ~call.raised
    /\ Cardinality(Positions(call.events, "register")) = 3
    /\ call.ret.tools[3] = "sap_hana_run_query"

\* a required field is absent from the connector section, or empty
Missing(config, k) ==
    \/ ~HasKey(config.connector, k)
    \/ Get(config.connector, k) \in {None, Str("")}

\* the type the connector section selects: hana when it names none
SelectedType(config) ==
    IF \E i \in 1..Len(config.connector) : config.connector[i][1] = "type"
    THEN Get(config.connector, "type") ELSE Str("hana")

RequiredFields(t) ==
    IF t = Str("hana") THEN <<"host", "user", "password">>
    ELSE IF t = Str("odbc") THEN <<"connection_string">>
    ELSE <<>>

\* C22: validate_config returns no error exactly when name and prefix are
\* non-empty and the selected type's required fields are non-empty; each
\* missing field gives an error naming it; an unknown type gives an error,
\* so a configuration that validates never makes create_connector raise its
\* unknown-type ValueError.
C22_ValidationMatchesRequiredFields ==
    call.op \in {"config", "create_server"} =>
        LET config == call.arg
            t == SelectedType(config)
            known == t \in {Str("hana"), Str("odbc")}
            required == RequiredFields(t)
            errors == validate_config(config)
        IN  /\ errors = <<>> <=>
                  /\ config.name \notin {None, Str("")}
                  /\ config.prefix \notin {None, Str("")}
                  /\ known
                  /\ \A i \in 1..Len(required) : ~Missing(config, required[i])
            /\ \A i \in 1..Len(required) :
                  Missing(config, required[i]) =>
                      \E e \in 1..Len(errors) :
                          Contains(Upper(errors[e]), Upper(required[i]))
            /\ ~known => errors # <<>>
            /\ errors = <<>> => ~create_connector(Connector, config).raised
            /\ call.op = "create_server" =>
                  /\ ~StartsWith(call.msg, "Unknown connector type")
                  /\ (call.exc = "ValueError") <=> (errors # <<>>)

\* a hana section without host
C22_Witness ==
    /\ call.op = "create_server"
    /\ call.arg.connector
         = << <<"type", Str("hana")>>, <<"user", Str("SYSTEM")>>,
              <<"password", Str("secret")>> >>
    /\ call.arg.name = Str("sap") /\ call.arg.prefix = Str("sap_hana")
    /\ call.exc = "ValueError"
    /\ call.msg = "Configuration errors:\n  - HANA host is required"

---------------------------------------------------------------------------
(* Failure handling of a call *)

\* C24: there is no retry and no recovery on failure: each tool call (and
\* each connector operation under it) makes at most one driver connect
\* attempt and at most one statement or catalog dispatch; a failed dispatch
\* leaves the handle it ran on in the slot, open, with no close in the
\* call; and a call made while a handle is stored, whatever happened on
\* that handle before, connects nothing and dispatches on that handle.
C24_NoRetryNoRecovery ==
    [][call'.op \in ToolOps \cup LazyOps =>
          LET ev == call'.events
          IN  /\ Cardinality(ConnectAttempts(ev)) <= 1
              /\ Cardinality(Dispatches(ev)) <= 1
              /\ \A i \in Dispatches(ev) :
                    ~ev[i].ok =>
                        /\ connection' = ev[i].h
                        /\ ev[i].h \in opened'
                        /\ \A j \in 1..Len(ev) : ev[j].ev # "close"
                        /\ connection # NoHandle =>
                              UNCHANGED <<connection, opened, created>>
              /\ connection # NoHandle =>
                    /\ ConnectAttempts(ev) = {}
                    /\ connection' = connection
                    /\ \A i \in Dispatches(ev) : ev[i].h = connection]_vars

\* a tool call whose statement failed on the handle stored by an earlier
\* call: no connect, no close, the handle still stored and open
C24_Witness ==
    /\ call.op = "run_query"
    /\ created = 1
    /\ connection = 1
    /\ connection \in opened
    /\ ConnectAttempts(call.events) = {}
    /\ \A j \in 1..Len(call.events) : call.events[j].ev # "close"
    /\ \E i \in Dispatches(call.events) :
          /\ ~call.events[i].ok
          /\ call.events[i].h = connection

---------------------------------------------------------------------------
(* execute_query as a function of the statement and the backend's result   *)
(* set: the caller holds a statement, the backend will answer it with a    *)
(* result set, and the step is the call.                                   *)

\* cursor.description, names only: distinct names and repeated names
QueryDescriptions ==
    {<<"A">>, <<"A", "B">>, <<"A", "A">>, <<"B", "A">>, <<"A", "B", "A">>}

QueryValues == {None, Str("1"), Str("2")}

\* result sets of up to MaxRows tuples, one value per reported column
QueryResultSets ==
    UNION {{ResultSet(d, t) :
              t \in UNION {[1..n -> [1..Len(d) -> QueryValues]] :
                              n \in 0..MaxRows}} :
           d \in QueryDescriptions}

QueryTexts == {"SELECT A, B FROM T", "select 1 -- DROP"}

\* a connector that has not connected yet, with its driver installed
InitQuery ==
    /\ variant \in {"hana", "odbc"}
    /\ driver = TRUE
    /\ connection = NoHandle
    /\ opened = {}
    /\ created = 0
    /\ last_error = None
    /\ inflight = <<>>
    /\ \E sql \in QueryTexts, rs \in QueryResultSets :
          call = [NoCall EXCEPT !.op = "statement", !.arg = <<sql, rs>>]

RunStatement ==
    /\ call.op = "statement"
    /\ Finish("execute_query", call.arg,
              execute_query(Connector, call.arg[1],
                            Env(ConnectOk, call.arg[2], FALSE)))

NextQuery == RunStatement

SpecQuery == InitQuery /\ [][NextQuery]_vars

\* the distinct names of a description, in order of first occurrence
RECURSIVE DistinctNames(_)
DistinctNames(names) ==
    IF names = <<>> THEN <<>>
    ELSE LET front == SubSeq(names, 1, Len(names) - 1)
             last == names[Len(names)]
         IN  IF \E i \in 1..Len(front) : front[i] = last
             THEN DistinctNames(front)
             ELSE Append(DistinctNames(front), last)

\* the position of the last column reported under name
LastColumn(names, name) ==
    CHOOSE i \in 1..Len(names) :
        /\ names[i] = name
        /\ \A j \in (i + 1)..Len(names) : names[j] # name

\* C25: execute_query executes exactly the text it is given, once, and
\* returns one Row per backend tuple in backend order; each Row is keyed by
\* the reported column names; for a name reported for several columns the
\* Row holds one entry with the value of the last such column, so the Row
\* has fewer entries than the result has columns exactly when a name
\* repeats.
C25_RowsFollowResultSet ==
    call.op = "execute_query" =>
        LET sql == call.arg[1]
            names == call.arg[2].description
            tuples == call.arg[2].tuples
            ev == call.events
        IN  /\ ~call.raised
            /\ Cardinality(Dispatches(ev)) = 1
            /\ \A i \in Dispatches(ev) :
                  ev[i].ev = "execute" /\ ev[i].text = sql
            /\ Len(call.ret) = Len(tuples)
            /\ \A r \in 1..Len(tuples) :
                  /\ Keys(call.ret[r]) = DistinctNames(names)
                  /\ \A c \in 1..Len(names) :
                        Get(call.ret[r], names[c])
                            = tuples[r][LastColumn(names, names[c])]
                  /\ (Len(call.ret[r]) < Len(names))
                        <=> (\E c, e \in 1..Len(names) :
                                c # e /\ names[c] = names[e])

\* two tuples under a repeated name whose columns differ in value: each
\* Row has two entries for three columns, the repeated name's from the last
C25_Witness ==
    /\ call.op = "execute_query"
    /\ call.arg[1] = "select 1 -- DROP"
    /\ call.arg[2].description = <<"A", "B", "A">>
    /\ call.arg[2].tuples = << <<Str("1"), None, Str("2")>>,
                               <<Str("2"), Str("1"), None>> >>
    /\ call.ret = << << <<"A", Str("2")>>, <<"B", None>> >>,
                     << <<"A", None>>, <<"B", Str("1")>> >> >>

(***************************************************************************)
(* Concurrent invocations.  Nothing in the connectors takes a lock, so two  *)
(* invocations running on threads of one connector interleave between the   *)
(* statements of _get_connection() and connect(): the test of the slot, the *)
(* driver's connect, the assignment of the new handle to the slot, the read *)
(* of the slot for the return value, and the dispatch on that handle.       *)
(***************************************************************************)

\* number of invocations running at once
Callers == 2

\* the test `self._connection is None' never finds the slot filled
SlotIsEmptyAlways(slot) == TRUE

\* the test `self._connection is None' of _get_connection()
SlotIsEmpty(slot) == slot = NoHandle

\* an invocation about to enter _get_connection(): `mine' is the handle the
\* driver's connect returned to it and that it has not stored yet, `conn'
\* the handle _get_connection() returned to it, `used' the handle it
\* dispatched on, `overlapped' records that its test of the slot fell
\* between another invocation's test and that invocation's store
Entering ==
    [pc |-> "check", mine |-> NoHandle, conn |-> NoHandle, used |-> NoHandle,
     overlapped |-> FALSE]

\* the invocations that have tested the slot, found it empty, and have not
\* yet stored a handle or failed
Acquiring == {j \in DOMAIN inflight : inflight[j].pc \in {"connect", "store"}}

\* handles an invocation still holds in a local
HeldBy(threads) ==
    {threads[j].mine : j \in DOMAIN threads} \cup
    {threads[j].conn : j \in DOMAIN threads}

InitConc ==
    /\ variant \in {"hana", "odbc"}
    /\ driver \in BOOLEAN
    /\ connection = NoHandle
    /\ opened = {}
    /\ created = 0
    /\ last_error = None
    /\ call = NoCall
    /\ inflight = [i \in 1..Callers |-> Entering]

\* if self._connection is None:
CheckSlot(i) ==
    /\ inflight[i].pc = "check"
    /\ inflight' =
          [inflight EXCEPT
              ![i].pc = IF SlotIsEmpty(connection) THEN "connect" ELSE "return",
              ![i].overlapped = (Acquiring \ {i}) # {}]
    /\ UNCHANGED <<variant, driver, connection, opened, created, last_error,
                   call>>

\* connect() up to the driver's connect returning: the import of the driver
\* module or the driver's connect raises, or a new backend connection is
\* open and held in the invocation's frame
DriverConnect(i) ==
    /\ inflight[i].pc = "connect"
    /\ \/ /\ ~driver
          /\ inflight' = [inflight EXCEPT ![i].pc = "raised"]
          /\ UNCHANGED <<opened, created>>
       \/ /\ driver
          /\ inflight' = [inflight EXCEPT ![i].pc = "raised"]
          /\ UNCHANGED <<opened, created>>
       \/ /\ driver
          /\ created < MaxHandles
          /\ created' = created + 1
          /\ opened' = opened \cup {created + 1}
          /\ inflight' = [inflight EXCEPT ![i].pc = "store",
                                          ![i].mine = created + 1]
    /\ UNCHANGED <<variant, driver, connection, last_error, call>>

\* self._connection = <the driver's connection>: the handle the slot held
\* loses that reference; when no invocation holds it either, the collector
\* may or may not finalize it
StoreHandle(i) ==
    /\ inflight[i].pc = "store"
    /\ connection' = inflight[i].mine
    /\ inflight' = [inflight EXCEPT ![i].pc = "return", ![i].mine = NoHandle]
    /\ \/ UNCHANGED opened
       \/ /\ connection # NoHandle
          /\ connection \notin HeldBy(inflight')
          /\ opened' = opened \ {connection}
    /\ UNCHANGED <<variant, driver, created, last_error, call>>

\* return self._connection
ReturnSlot(i) ==
    /\ inflight[i].pc = "return"
    /\ inflight' = [inflight EXCEPT ![i].pc = "dispatch",
                                    ![i].conn = connection]
    /\ UNCHANGED <<variant, driver, connection, opened, created, last_error,
                   call>>

\* the statement or catalog call on the returned handle, after which the
\* invocation's frame is gone: a handle that only this frame referred to
\* may or may not be finalized by the collector
Dispatch(i) ==
    /\ inflight[i].pc = "dispatch"
    /\ \E ok \in BOOLEAN :
          inflight' = [inflight EXCEPT
                          ![i].pc = IF ok THEN "done" ELSE "raised",
                          ![i].used = inflight[i].conn,
                          ![i].conn = NoHandle]
    /\ \/ UNCHANGED opened
       \/ /\ inflight[i].conn # connection
          /\ inflight[i].conn \notin HeldBy(inflight')
          /\ opened' = opened \ {inflight[i].conn}
    /\ UNCHANGED <<variant, driver, connection, created, last_error, call>>

NextConc ==
    \E i \in 1..Callers :
        \/ CheckSlot(i)
        \/ DriverConnect(i)
        \/ StoreHandle(i)
        \/ ReturnSlot(i)
        \/ Dispatch(i)

SpecConc == InitConc /\ [][NextConc]_vars

\* at most one backend connection was opened, and every open handle is the
\* one in the slot or one an invocation is about to store
OneConnectionNoLeak ==
    /\ created <= 1
    /\ opened \subseteq
          ({connection} \cup
           {inflight[j].mine : j \in {k \in DOMAIN inflight :
                                         inflight[k].pc = "store"}})

\* C23 as stated: under any interleaving of concurrent invocations on a
\* connector whose slot is empty, the lazy acquisition opens at most one
\* backend connection and leaves no opened handle unreferenced and unclosed.
C23_SingleConnectionUnderInterleaving == OneConnectionNoLeak

\* C23, amended: when no invocation tests the slot while another is between
\* its own test and its store (the callers serialize the acquisition), the
\* lazy acquisition opens at most one backend connection and leaves no
\* opened handle unreferenced and unclosed.
C23_SingleConnectionWhenSerialized ==
    (\A j \in DOMAIN inflight : ~inflight[j].overlapped) => OneConnectionNoLeak

\* every invocation finished without overlapping another's acquisition; the
\* first opened the connection and the others dispatched on that same handle
C23_Witness ==
    /\ inflight # <<>>
    /\ \A j \in DOMAIN inflight :
          /\ inflight[j].pc = "done"
          /\ ~inflight[j].overlapped
          /\ inflight[j].used = connection
    /\ created = 1
    /\ opened = {connection}

====
